---------------------------- MODULE Spec2Model ----------------------------
(***************************************************************************)
(* A model of eCrash (src/eCrash.c): the thread registry, the signal       *)
(* dispositions, eCrash_Init, the crash handler with its all-threads       *)
(* rendezvous, and the symbol resolver.                                    *)
(*                                                                         *)
(* Pointers are modelled as sequences of length at most one: << >> is the  *)
(* NULL pointer and <<v>> points to v.  List nodes live in a heap indexed  *)
(* by node identifiers; 0 is the NULL node pointer.                        *)
(***************************************************************************)
EXTENDS Integers, Sequences, FiniteSets, TLC

(***************************************************************************)
(* Bounds of the model.                                                    *)
(***************************************************************************)
NumThreads == 2      \* threads of the process, numbered 1..NumThreads
MaxNodes == 2        \* registry nodes the heap can hold at one time
MaxAddr == 5         \* code addresses are 0..MaxAddr
MaxSymbols == 3      \* entries of a caller-supplied symbol table
MaxWait == 2         \* largest configured threadWaitTime
MaxCalls == 4        \* register / unregister calls made in one run
MAX_LINE_LEN == 4     \* size of outputPrintf's line buffer (eCrash.h), scaled down
MaxLines == 2         \* outputPrintf calls made in one run of the output layer
MaxCrashes == 2       \* fatal signals delivered in one run
MaxEvents == 5        \* registry calls and weighted fatal signals in one run
CrashWeight == 3      \* what a fatal signal counts for among the events
CrashCalls == 2       \* registry calls begun in a run of the single-crash specification
UIntRange == 4       \* number of values a %u conversion can print (stands for 2^32)

(***************************************************************************)
(* Signal numbers and the defaults of eCrash.h.                            *)
(***************************************************************************)
SIGBUS == 7
SIGUSR1 == 10
SIGSEGV == 11
SIGUSR2 == 12
ECRASH_DEFAULT_STACK_DEPTH == 10
ECRASH_DEFAULT_BACKTRACE_SIGNAL == SIGUSR1
ECRASH_DEFAULT_THREAD_WAIT_TIME == 2

Threads == 1..NumThreads
FatalSignals == {SIGSEGV, SIGBUS}
BacktraceSignals == {SIGUSR1, SIGUSR2}
Signals == FatalSignals \cup BacktraceSignals
Handlers == {"SIG_DFL", "SIG_IGN", "user_handler", "crash_handler", "bt_handler"}

NULL == << >>
Ptr(v) == <<v>>
Deref(p) == p[1]

VARIABLES
    gbl_params,             \* the process-wide copy of the configuration
    gbl_fd,                 \* descriptor of the path-backed output file, -1 when closed
    gbl_backtraceBuffer,    \* [cap, owner, round]: capacity and whose stack it holds
    gbl_backtraceEntries,   \* number of entries of the last capture
    gbl_backtraceSymbols,   \* the array backtrace_symbols returned last, NULL when none
    gbl_backtraceDoneFlag,  \* the completion flag
    heap,                   \* node id -> ThreadListNode, with its allocation state
    ThreadList,             \* head of the registry list (a node id, 0 = NULL)
    ThreadListMutex,        \* 0 when free, else the thread holding it
    sigDisp,                \* signal -> installed handler (process-wide)
    pending,                \* thread -> rendezvous signals sent to it, not yet delivered
    pc,                     \* thread -> position in normal context
    loc,                    \* thread -> locals of the API call in progress
    hpc,                    \* thread -> position inside crash_handler ("none" outside)
    hloc,                   \* thread -> locals of crash_handler / outputBacktraceThreads
    bpc,                    \* thread -> position inside bt_handler ("none" outside)
    proc,                   \* [state, code]: running, exited(code), killed(signal)
    report,                 \* per crash_handler run, the lines it emitted, oldest first
    retv,                   \* thread -> result of its last completed API call
    out,                    \* outputPrintf: its locals and the bytes each target received
    hist                    \* history kept for stating the properties

vars == <<gbl_params, gbl_fd, gbl_backtraceBuffer, gbl_backtraceEntries, gbl_backtraceSymbols,
          gbl_backtraceDoneFlag, heap, ThreadList, ThreadListMutex, sigDisp,
          pending, pc, loc, hpc, hloc, bpc, proc, report, retv, out, hist>>

(***************************************************************************)
(* Symbol resolver.                                                        *)
(***************************************************************************)

\* A symbol table: [numSymbols, symbols], symbols a sequence of [function, address].
SymbolNames == {"f", "g", "h"}
Symbol == [function : SymbolNames, address : 0..MaxAddr]

RECURSIVE SeqsUpTo(_, _)
SeqsUpTo(S, n) ==
    IF n = 0 THEN {<< >>}
    ELSE LET shorter == SeqsUpTo(S, n - 1)
         IN  shorter \cup {Append(s, x) : s \in {q \in shorter : Len(q) = n - 1}, x \in S}

\* Tables whose i-th entry is named by the i-th name: the names play no part in the scan.
NameAt(i) == IF i = 1 THEN "f" ELSE IF i = 2 THEN "g" ELSE "h"
TableOf(addrs) ==
    [numSymbols |-> Len(addrs),
     symbols |-> [i \in 1..Len(addrs) |-> [function |-> NameAt(i), address |-> addrs[i]]]]
SymbolTables == {TableOf(a) : a \in SeqsUpTo(0..MaxAddr, MaxSymbols)}

\* The loop of lookupClosestSymbol from index addr (0-based in the source) with `last`
\* (a pointer to an entry): stops at the first entry whose address exceeds the query.
RECURSIVE lookupLoop(_, _, _, _)
lookupLoop(table, address, addr, last) ==
    IF addr < table.numSymbols
    THEN IF table.symbols[addr + 1].address > address
         THEN last
         ELSE lookupLoop(table, address, addr + 1, Ptr(table.symbols[addr + 1]))
    ELSE last

\* The scan with the comparison >= in place of >: an entry at the query address is skipped.
RECURSIVE lookupLoopGe(_, _, _, _)
lookupLoopGe(table, address, addr, last) ==
    IF addr < table.numSymbols
    THEN IF table.symbols[addr + 1].address >= address
         THEN last
         ELSE lookupLoopGe(table, address, addr + 1, Ptr(table.symbols[addr + 1]))
    ELSE last

lookupClosestSymbolGe(table, address) == lookupLoopGe(table, address, 0, NULL)

lookupClosestSymbol(table, address) == lookupLoop(table, address, 0, NULL)

\* The %u conversion of outputGlobalBacktrace's "%s+%u": the low bits of the value.
FormatU(x) == x % UIntRange

\* What outputGlobalBacktrace prints for one frame when a symbol table is configured.
FrameText(table, address) ==
    LET symbol == lookupClosestSymbol(table, address)
    IN  IF symbol # NULL
        THEN [kind |-> "symbol", function |-> Deref(symbol).function,
              offset |-> FormatU(address - Deref(symbol).address)]
        ELSE [kind |-> "raw", function |-> "", offset |-> address]

\* The loop of ValidateSymbolTable from index i: lastAddress is compared with every
\* entry and is never assigned inside the loop.
RECURSIVE ValidateLoop(_, _, _, _)
ValidateLoop(table, i, lastAddress, rc) ==
    IF i < table.numSymbols
    THEN ValidateLoop(table, i + 1, lastAddress,
                      IF lastAddress > table.symbols[i + 1].address THEN -1 ELSE rc)
    ELSE rc

\* ValidateSymbolTable on the copied configuration: 0 when no table is configured.
ValidateSymbolTable(params) ==
    IF params.symbolTable = NULL THEN 0
    ELSE ValidateLoop(Deref(params.symbolTable), 0, 0, 0)

(***************************************************************************)
(* Configuration.                                                          *)
(***************************************************************************)

\* gbl_params before eCrash_Init: a zero-initialised static.
ZeroParams ==
    [filename |-> NULL, filep |-> NULL, fd |-> 0, maxStackDepth |-> 0,
     defaultBacktraceSignal |-> 0, threadWaitTime |-> 0, dumpAllThreads |-> FALSE,
     useBacktraceSymbols |-> FALSE, symbolTable |-> NULL, signals |-> << >>]

\* The configurations a caller hands to eCrash_Init in the lifecycle specification:
\* every symbol table with two sets of fatal signals, and, without a table, the other
\* fields varied.
InitParams ==
    [filename : {Ptr("eCrash.out")}, filep : {NULL}, fd : {-1},
     maxStackDepth : {0}, defaultBacktraceSignal : {0},
     threadWaitTime : {0}, dumpAllThreads : {TRUE}, useBacktraceSymbols : {FALSE},
     symbolTable : {Ptr(tb) : tb \in SymbolTables},
     signals : {<< >>, <<SIGSEGV, SIGBUS>>}]
    \cup
    [filename : {NULL, Ptr("eCrash.out")}, filep : {NULL, Ptr("stdout")}, fd : {-1, 3},
     maxStackDepth : {0, 2}, defaultBacktraceSignal : {0, SIGUSR2},
     threadWaitTime : 0..MaxWait, dumpAllThreads : BOOLEAN, useBacktraceSymbols : BOOLEAN,
     symbolTable : {NULL},
     signals : {<< >>, <<SIGSEGV>>, <<SIGSEGV, SIGBUS>>}]

\* The configurations of the crash-handling specification.
MainParams ==
    [filename : {Ptr("eCrash.out")}, filep : {NULL}, fd : {-1},
     maxStackDepth : {0}, defaultBacktraceSignal : {0},
     threadWaitTime : {1}, dumpAllThreads : BOOLEAN, useBacktraceSymbols : {FALSE},
     symbolTable : {NULL}, signals : {<<SIGSEGV, SIGBUS>>}]

Range(s) == {s[i] : i \in 1..Len(s)}

(***************************************************************************)
(* State after load: nothing initialised, nothing registered.              *)
(***************************************************************************)

BlankNode ==
    [allocated |-> FALSE, threadName |-> 0, thread |-> 0, backtraceSignal |-> 0,
     oldHandler |-> "SIG_DFL", Next |-> 0, req |-> 0, pre |-> "SIG_DFL"]

NoLoc == [signo |-> 0, old_handler |-> "SIG_DFL", node |-> 0, req |-> 0, pre |-> "SIG_DFL"]
\* sleeps counts the sleep(1) calls of the run (history, not read by the program).
NoHLoc == [signo |-> 0, probe |-> 0, i |-> 0, round |-> 0, sleeps |-> 0]
NoBt == [at |-> "none"]
\* A rendezvous round: the crash_handler run that sent the signal and its count of
\* signals sent so far; NoRound stands for "none".
RoundId(t, r) == <<t, r>>
NoRound == <<0, 0>>
NoRet == [op |-> "none", rc |-> 0]
\* The locals of blockingWrite, with what the descriptor received during the call.
NoWrite == [target |-> "none", bytes |-> 0, bytesWritten |-> 0, totalWritten |-> 0,
            received |-> << >>, done |-> FALSE]
\* outputPrintf's state: its position and locals, the bytes appended to each of the
\* three targets since they were opened, and for the line in hand the targets that
\* were attempted and those that did not take the whole line; closed says that
\* outputFini has run, stray that the line in hand was issued after it.
NoOut == [pc |-> "idle", outputLine |-> << >>, bytesInLine |-> 0, return_value |-> 0,
          bw |-> NoWrite, file |-> << >>, stream |-> << >>, desc |-> << >>,
          attempted |-> {}, short |-> {}, refused |-> FALSE, overflow |-> FALSE,
          opened |-> FALSE, closed |-> FALSE, stray |-> FALSE,
          lines |-> 0, ret |-> NULL]

InitHist ==
    [initCalls |-> 0,          \* calls of eCrash_Init so far
     initArg |-> NULL,         \* the argument of the last eCrash_Init call
     initRet |-> 0,            \* its return value
     initFault |-> FALSE,      \* whether a call of eCrash_Init faulted
     validateRc |-> 0,         \* result of the last ValidateSymbolTable call
     validated |-> FALSE,      \* whether ValidateSymbolTable was called
     lookupAddr |-> -1,        \* the last address resolved (-1: none yet)
     lookupSym |-> NULL,       \* what lookupClosestSymbol returned for it
     lookupText |-> [kind |-> "none", function |-> "", offset |-> 0],
     calls |-> 0,              \* register / unregister calls made
     everReg |-> {},           \* threads whose registration has succeeded at some time
     crashes |-> 0,            \* fatal signals delivered
     round |-> 0,              \* rendezvous signals sent
     atCrash |-> << >>,        \* the registered threads, head first, at the first crash
     crasher |-> 0,            \* the thread the first fatal signal was delivered to
     quiet |-> TRUE,           \* no registry call has run since the first crash
     origDisp |-> [s \in BacktraceSignals |-> "unused"],
                               \* the disposition each rendezvous signal had before the
                               \* first registration that used it
     allOk |-> TRUE]           \* every register / unregister call so far has succeeded

TypeInit ==
    /\ gbl_params = ZeroParams
    /\ gbl_fd = -1
    /\ gbl_backtraceBuffer = [cap |-> 0, owner |-> 0, round |-> NoRound]
    /\ gbl_backtraceEntries = 0
    /\ gbl_backtraceSymbols = NULL
    /\ gbl_backtraceDoneFlag = 0
    /\ heap = [n \in 1..MaxNodes |-> BlankNode]
    /\ ThreadList = 0
    /\ ThreadListMutex = 0
    /\ pending = [t \in Threads |-> [s \in BacktraceSignals |-> NoRound]]
    /\ pc = [t \in Threads |-> "idle"]
    /\ loc = [t \in Threads |-> NoLoc]
    /\ hpc = [t \in Threads |-> "none"]
    /\ hloc = [t \in Threads |-> NoHLoc]
    /\ bpc = [t \in Threads |-> NoBt]
    /\ proc = [state |-> "running", code |-> 0]
    /\ report = [t \in Threads |-> << >>]
    /\ retv = [t \in Threads |-> NoRet]
    /\ out = NoOut
    /\ hist = InitHist

\* The rendezvous signals start with whatever disposition the application gave them;
\* the fatal signals start with the default action.
Init ==
    /\ TypeInit
    /\ sigDisp \in {d \in [Signals -> {"SIG_DFL", "SIG_IGN", "user_handler"}] :
                        /\ \A s \in FatalSignals : d[s] = "SIG_DFL"
                        /\ d[SIGUSR1] # "SIG_IGN"
                        /\ d[SIGUSR2] # "user_handler"}

\* The events of a run so far: a fatal signal weighs as CrashWeight registry calls.
Events == hist.calls + CrashWeight * hist.crashes

Running == proc.state = "running"
\* Thread t executes normal-context code: it is inside no signal handler.
InNormal(t) == Running /\ hpc[t] = "none" /\ bpc[t] = NoBt

(***************************************************************************)
(* What a signal does when it is delivered to thread t, by its disposition. *)
(* The default action of every signal of the model terminates the process. *)
(***************************************************************************)

\* A fatal signal s delivered to thread t.
DeliverFatal(t, s) ==
    IF sigDisp[s] = "crash_handler"
    THEN /\ hpc' = [hpc EXCEPT ![t] = "open"]
         /\ hloc' = [hloc EXCEPT ![t] = [NoHLoc EXCEPT !.signo = s]]
         /\ proc' = proc
    ELSE /\ proc' = [state |-> "killed", code |-> s]
         /\ UNCHANGED <<hpc, hloc>>

(***************************************************************************)
(* eCrash_Init                                                             *)
(***************************************************************************)

\* The defaults eCrash_Init fills in after copying *params.
WithDefaults(p) ==
    [p EXCEPT
        !.maxStackDepth = IF @ = 0 THEN ECRASH_DEFAULT_STACK_DEPTH ELSE @,
        !.defaultBacktraceSignal = IF @ = 0 THEN ECRASH_DEFAULT_BACKTRACE_SIGNAL ELSE @,
        !.threadWaitTime = IF @ = 0 THEN ECRASH_DEFAULT_THREAD_WAIT_TIME ELSE @]

\* signal(gbl_params.signals[sigIndex], crash_handler) for every configured signal.
InstallCrashHandlers(disp, signals) ==
    [s \in Signals |-> IF s \in Range(signals) THEN "crash_handler" ELSE disp[s]]

\* Whether eCrash_Init dereferences a NULL pointer on this argument.
DerefsNull(params) ==
    IF params = NULL THEN TRUE ELSE Deref(params).filename = NULL

\* eCrash_Init(params) called by thread t.  Line 554 reads params->maxStackDepth before
\* the NULL test, and line 567 passes params->filename to strdup untested: both are
\* undefined for a NULL pointer, so the call either faults there or carries on.
eCrash_Init(t, params) ==
    /\ InNormal(t)
    /\ pc[t] = "idle"
    /\ \E faults \in BOOLEAN :
        /\ faults => DerefsNull(params)
        /\ IF faults
           THEN /\ DeliverFatal(t, SIGSEGV)
                /\ hist' = [hist EXCEPT !.initCalls = 1, !.initArg = params,
                                        !.initFault = TRUE]
                /\ UNCHANGED <<gbl_params, gbl_backtraceBuffer, sigDisp, retv>>
           ELSE IF params = NULL
           THEN /\ retv' = [retv EXCEPT ![t] = [op |-> "init", rc |-> -1]]
                /\ hist' = [hist EXCEPT !.initCalls = 1, !.initArg = params,
                                        !.initRet = -1]
                /\ UNCHANGED <<gbl_params, gbl_backtraceBuffer, sigDisp, hpc, hloc, proc>>
           ELSE LET copy == WithDefaults(Deref(params))
                IN  /\ gbl_backtraceBuffer' =
                          [gbl_backtraceBuffer EXCEPT !.cap = Deref(params).maxStackDepth + 5]
                    /\ gbl_params' = copy
                    /\ sigDisp' = InstallCrashHandlers(sigDisp, copy.signals)
                    /\ retv' = [retv EXCEPT ![t] = [op |-> "init", rc |-> 0]]
                    /\ hist' = [hist EXCEPT !.initCalls = 1, !.initArg = params,
                                            !.initRet = 0,
                                            !.validated = (copy.symbolTable # NULL),
                                            !.validateRc = ValidateSymbolTable(copy)]
                    /\ UNCHANGED <<hpc, hloc, proc>>
    /\ UNCHANGED <<gbl_fd, gbl_backtraceEntries, gbl_backtraceSymbols,
                   gbl_backtraceDoneFlag, heap, ThreadList,
                   ThreadListMutex, pending, pc, loc, bpc, report, out>>

Initialized == hist.initCalls = 1 /\ ~hist.initFault /\ hist.initRet = 0

\* outputGlobalBacktrace formats one frame at `address` against the configured table.
ResolveFrame(address) ==
    /\ Running
    /\ Initialized
    /\ gbl_params.symbolTable # NULL
    /\ hist' = [hist EXCEPT !.lookupAddr = address,
                            !.lookupSym =
                                lookupClosestSymbol(Deref(gbl_params.symbolTable), address),
                            !.lookupText = FrameText(Deref(gbl_params.symbolTable), address)]
    /\ UNCHANGED <<gbl_params, gbl_fd, gbl_backtraceBuffer, gbl_backtraceEntries,
                   gbl_backtraceSymbols,
                   gbl_backtraceDoneFlag, heap, ThreadList, ThreadListMutex, sigDisp,
                   pending, pc, loc, hpc, hloc, bpc, proc, report, retv, out>>

(***************************************************************************)
(* Thread registry: eCrash_RegisterThread, eCrash_UnregisterThread.        *)
(***************************************************************************)

\* The registry as the sequence of node ids reached from `head` along Next.
RECURSIVE ListFrom(_, _, _)
ListFrom(h, head, fuel) ==
    IF head = 0 \/ fuel = 0 THEN << >>
    ELSE <<head>> \o ListFrom(h, h[head].Next, fuel - 1)
Registry == ListFrom(heap, ThreadList, MaxNodes)
Registered(t) == \E i \in 1..Len(Registry) : heap[Registry[i]].thread = t

FreeNodes == {n \in 1..MaxNodes : ~heap[n].allocated}
Min(S) == CHOOSE x \in S : \A y \in S : x <= y

\* The display name a thread registers under ("Thread %d" in ecrash_test_thread).
NameOf(t) == t

\* Unregistration that puts the default action back instead of the saved handler.
RestoredHandlerDefault(node) == "SIG_DFL"

\* The handler removeThreadFromList hands to signal() for the removed node.
RestoredHandler(node) == node.oldHandler

\* The signal a registration with argument req is for: 0 stands for the configured
\* default.  Used for the history fields req / pre of a node, which the code never reads.
SignalOf(req) == IF req = 0 THEN gbl_params.defaultBacktraceSignal ELSE req

\* eCrash_RegisterThread up to and including signal(signo, bt_handler).
eCrash_RegisterThread(t, signo) ==
    /\ InNormal(t)
    /\ pc[t] = "idle"
    /\ Initialized
    /\ hist.calls < MaxCalls /\ Events < MaxEvents
    /\ LET s == IF signo = 0 THEN gbl_params.defaultBacktraceSignal ELSE signo
       IN  /\ loc' = [loc EXCEPT ![t] = [signo |-> s, old_handler |-> sigDisp[s],
                                         node |-> 0, req |-> signo,
                                         pre |-> sigDisp[SignalOf(signo)]]]
           /\ sigDisp' = [sigDisp EXCEPT ![s] = "bt_handler"]
    /\ pc' = [pc EXCEPT ![t] = "add"]
    /\ hist' = [hist EXCEPT !.calls = @ + 1, !.quiet = (hist.crashes = 0),
                            !.origDisp[SignalOf(signo)] =
                                IF @ = "unused" THEN sigDisp[SignalOf(signo)] ELSE @]
    /\ UNCHANGED <<gbl_params, gbl_fd, gbl_backtraceBuffer, gbl_backtraceEntries,
                   gbl_backtraceSymbols,
                   gbl_backtraceDoneFlag, heap, ThreadList, ThreadListMutex, pending,
                   hpc, hloc, bpc, proc, report, retv, out>>

\* addThreadToList: malloc fails and the call returns -1 ...
addThreadToList_nomem(t) ==
    /\ InNormal(t)
    /\ pc[t] = "add"
    /\ pc' = [pc EXCEPT ![t] = "idle"]
    /\ loc' = [loc EXCEPT ![t] = NoLoc]
    /\ retv' = [retv EXCEPT ![t] = [op |-> "register", rc |-> -1]]
    /\ hist' = [hist EXCEPT !.allOk = FALSE]
    /\ UNCHANGED <<gbl_params, gbl_fd, gbl_backtraceBuffer, gbl_backtraceEntries,
                   gbl_backtraceSymbols,
                   gbl_backtraceDoneFlag, heap, ThreadList, ThreadListMutex, sigDisp,
                   pending, hpc, hloc, bpc, proc, report, out>>

\* ... or it succeeds, the node is filled in and the mutex is taken.
addThreadToList_lock(t) ==
    /\ InNormal(t)
    /\ pc[t] = "add"
    /\ FreeNodes # {}
    /\ ThreadListMutex = 0
    /\ LET node == Min(FreeNodes)
       IN  /\ heap' = [heap EXCEPT ![node] =
                          [allocated |-> TRUE, threadName |-> NameOf(t), thread |-> t,
                           backtraceSignal |-> loc[t].signo,
                           oldHandler |-> loc[t].old_handler, Next |-> 0,
                           req |-> loc[t].req, pre |-> loc[t].pre]]
           /\ loc' = [loc EXCEPT ![t].node = node]
    /\ ThreadListMutex' = t
    /\ pc' = [pc EXCEPT ![t] = "add_link"]
    /\ UNCHANGED <<gbl_params, gbl_fd, gbl_backtraceBuffer, gbl_backtraceEntries,
                   gbl_backtraceSymbols,
                   gbl_backtraceDoneFlag, ThreadList, sigDisp, pending, hpc, hloc, bpc,
                   proc, report, retv, hist, out>>

\* addThreadToList: link the node at the head, unlock, return 0.
addThreadToList_link(t) ==
    /\ InNormal(t)
    /\ pc[t] = "add_link"
    /\ heap' = [heap EXCEPT ![loc[t].node].Next = ThreadList]
    /\ ThreadList' = loc[t].node
    /\ ThreadListMutex' = 0
    /\ pc' = [pc EXCEPT ![t] = "idle"]
    /\ loc' = [loc EXCEPT ![t] = NoLoc]
    /\ retv' = [retv EXCEPT ![t] = [op |-> "register", rc |-> 0]]
    /\ hist' = [hist EXCEPT !.everReg = @ \cup {t}]
    /\ UNCHANGED <<gbl_params, gbl_fd, gbl_backtraceBuffer, gbl_backtraceEntries,
                   gbl_backtraceSymbols,
                   gbl_backtraceDoneFlag, sigDisp, pending, hpc, hloc, bpc, proc, report, out>>

\* The for loop of removeThreadFromList at Probe with Prev: unlinks the first node of
\* `thread` and clears its Next.  [Removed, heap, head] when the loop is left.
RECURSIVE removeLoop(_, _, _, _, _)
removeLoop(h, head, thread, Probe, Prev) ==
    IF Probe = 0 THEN [Removed |-> 0, heap |-> h, head |-> head]
    ELSE IF h[Probe].thread = thread
    THEN LET unlinked == IF Prev = 0 THEN h ELSE [h EXCEPT ![Prev].Next = h[Probe].Next]
         IN  [Removed |-> Probe,
              heap |-> [unlinked EXCEPT ![Probe].Next = 0],
              head |-> IF Prev = 0 THEN h[Probe].Next ELSE head]
    ELSE removeLoop(h, head, thread, h[Probe].Next, Probe)

\* The loop without the "link around ourselves" assignment of the else branch.
RECURSIVE removeLoopNoRelink(_, _, _, _, _)
removeLoopNoRelink(h, head, thread, Probe, Prev) ==
    IF Probe = 0 THEN [Removed |-> 0, heap |-> h, head |-> head]
    ELSE IF h[Probe].thread = thread
    THEN [Removed |-> Probe,
          heap |-> [h EXCEPT ![Probe].Next = 0],
          head |-> IF Prev = 0 THEN h[Probe].Next ELSE head]
    ELSE removeLoopNoRelink(h, head, thread, h[Probe].Next, Probe)

removeScanNoRelink(h, head, thread) == removeLoopNoRelink(h, head, thread, head, 0)

removeScan(h, head, thread) == removeLoop(h, head, thread, head, 0)

\* eCrash_UnregisterThread: removeThreadFromList takes the mutex.
eCrash_UnregisterThread(t) ==
    /\ InNormal(t)
    /\ pc[t] = "idle"
    /\ Initialized
    /\ hist.calls < MaxCalls /\ Events < MaxEvents
    /\ ThreadListMutex = 0
    /\ ThreadListMutex' = t
    /\ pc' = [pc EXCEPT ![t] = "rm_scan"]
    /\ hist' = [hist EXCEPT !.calls = @ + 1, !.quiet = (hist.crashes = 0)]
    /\ UNCHANGED <<gbl_params, gbl_fd, gbl_backtraceBuffer, gbl_backtraceEntries,
                   gbl_backtraceSymbols,
                   gbl_backtraceDoneFlag, heap, ThreadList, sigDisp, pending, loc, hpc,
                   hloc, bpc, proc, report, retv, out>>

\* removeThreadFromList: the scan under the mutex, then unlock; "Not Found" returns -1.
removeThreadFromList_scan(t) ==
    /\ InNormal(t)
    /\ pc[t] = "rm_scan"
    /\ LET r == removeScan(heap, ThreadList, t)
       IN  /\ heap' = r.heap
           /\ ThreadList' = r.head
           /\ IF r.Removed # 0
              THEN /\ pc' = [pc EXCEPT ![t] = "rm_done"]
                   /\ loc' = [loc EXCEPT ![t] = [NoLoc EXCEPT !.node = r.Removed]]
                   /\ retv' = retv
                   /\ hist' = hist
              ELSE /\ pc' = [pc EXCEPT ![t] = "idle"]
                   /\ loc' = [loc EXCEPT ![t] = NoLoc]
                   /\ retv' = [retv EXCEPT ![t] = [op |-> "unregister", rc |-> -1]]
                   /\ hist' = [hist EXCEPT !.allOk = FALSE]
    /\ ThreadListMutex' = 0
    /\ UNCHANGED <<gbl_params, gbl_fd, gbl_backtraceBuffer, gbl_backtraceEntries,
                   gbl_backtraceSymbols,
                   gbl_backtraceDoneFlag, sigDisp, pending, hpc, hloc, bpc, proc, report,
                   out>>

\* removeThreadFromList: signal(Removed->backtraceSignal, Removed->oldHandler), free,
\* return 0.
removeThreadFromList_done(t) ==
    /\ InNormal(t)
    /\ pc[t] = "rm_done"
    /\ LET Removed == heap[loc[t].node]
       IN  sigDisp' = [sigDisp EXCEPT ![Removed.backtraceSignal] = RestoredHandler(Removed)]
    /\ heap' = [heap EXCEPT ![loc[t].node] = BlankNode]
    /\ pc' = [pc EXCEPT ![t] = "idle"]
    /\ loc' = [loc EXCEPT ![t] = NoLoc]
    /\ retv' = [retv EXCEPT ![t] = [op |-> "unregister", rc |-> 0]]
    /\ UNCHANGED <<gbl_params, gbl_fd, gbl_backtraceBuffer, gbl_backtraceEntries,
                   gbl_backtraceSymbols,
                   gbl_backtraceDoneFlag, ThreadList, ThreadListMutex, pending, hpc, hloc,
                   bpc, proc, report, hist, out>>

\* eCrash_Uninit: prints "Not Implemented Yet!" and returns 0.
eCrash_Uninit(t) ==
    /\ InNormal(t)
    /\ pc[t] = "idle"
    /\ Initialized
    /\ retv[t] # [op |-> "uninit", rc |-> 0]
    /\ retv' = [retv EXCEPT ![t] = [op |-> "uninit", rc |-> 0]]
    /\ UNCHANGED <<gbl_params, gbl_fd, gbl_backtraceBuffer, gbl_backtraceEntries,
                   gbl_backtraceSymbols,
                   gbl_backtraceDoneFlag, heap, ThreadList, ThreadListMutex, sigDisp,
                   pending, pc, loc, hpc, hloc, bpc, proc, report, hist, out>>

RegistryStep(t) ==
    \/ \E signo \in {0} \cup (BacktraceSignals \ {gbl_params.defaultBacktraceSignal}) :
           eCrash_RegisterThread(t, signo)
    \/ addThreadToList_nomem(t)
    \/ addThreadToList_lock(t)
    \/ addThreadToList_link(t)
    \/ eCrash_UnregisterThread(t)
    \/ removeThreadFromList_scan(t)
    \/ removeThreadFromList_done(t)

\* The configuration of the registry specification.
RegistryParams ==
    [filename : {Ptr("eCrash.out")}, filep : {NULL}, fd : {-1},
     maxStackDepth : {0}, defaultBacktraceSignal : {SIGUSR2},
     threadWaitTime : {0}, dumpAllThreads : {TRUE}, useBacktraceSymbols : {FALSE},
     symbolTable : {NULL}, signals : {<<SIGSEGV, SIGBUS>>}]

NextRegistry ==
    \/ /\ hist.initCalls = 0
       /\ \E p \in RegistryParams : eCrash_Init(1, Ptr(p))
    \/ \E t \in Threads : RegistryStep(t)

\* Registration and unregistration by all threads, with no crash.
SpecRegistry == Init /\ [][NextRegistry]_vars

(***************************************************************************)
(* The crash handler and the rendezvous handler.                           *)
(***************************************************************************)

\* crash_handler as it would run if it took ThreadListMutex before each step.
InCrashLocked(t) == Running /\ hpc[t] # "none" /\ bpc[t] = NoBt /\ ThreadListMutex = 0

\* Thread t executes crash_handler: it is not interrupted by bt_handler.
InCrash(t) == Running /\ hpc[t] # "none" /\ bpc[t] = NoBt

\* One outputPrintf call, or a run of calls with fixed text, as a line of the report:
\* the thread it names, for frames the capture they were read from (the capturing
\* thread and the rendezvous round it answered), else the round of the section.
Line(kind, thread, owner, round) ==
    [kind |-> kind, thread |-> thread, owner |-> owner, round |-> round, signo |-> 0]
\* A banner: it names the signal the handler was entered for.
Banner(kind, signo) == [Line(kind, 0, 0, NoRound) EXCEPT !.signo = signo]

\* The number of return addresses on thread t's stack when it captures: the threads
\* differ, the later ones being deeper than the five spare slots of the buffer.
StackDepthOf(t) == 3 * t
\* backtrace(gbl_backtraceBuffer, gbl_params.maxStackDepth) run by thread t.
backtrace(t) ==
    IF StackDepthOf(t) < gbl_params.maxStackDepth THEN StackDepthOf(t)
    ELSE gbl_params.maxStackDepth

\* The second half of createGlobalBacktrace, as the values gbl_backtraceSymbols can
\* have after it: with no symbol table configured and useBacktraceSymbols set it
\* calls backtrace_symbols, which returns an array it obtained from malloc (here
\* named by the capture it describes), or NULL when malloc fails; otherwise the
\* variable keeps its value.
backtrace_symbols(owner, round) ==
    IF gbl_params.symbolTable = NULL /\ gbl_params.useBacktraceSymbols
    THEN {NULL, Ptr([owner |-> owner, round |-> round])}
    ELSE {gbl_backtraceSymbols}

\* A fatal signal s is delivered to thread t, wherever it is in normal context.
FatalSignal(t, s) ==
    /\ InNormal(t)
    /\ hist.crashes < MaxCrashes /\ Events < MaxEvents
    /\ DeliverFatal(t, s)
    /\ hist' = [hist EXCEPT !.crashes = @ + 1,
                            !.crasher = IF hist.crashes = 0 THEN t ELSE @,
                            !.quiet = IF hist.crashes = 0
                                      THEN \A u \in Threads : pc[u] = "idle"
                                      ELSE @,
                            !.atCrash = IF hist.crashes = 0
                                        THEN [i \in 1..Len(Registry) |-> heap[Registry[i]].thread]
                                        ELSE @]
    /\ UNCHANGED <<gbl_params, gbl_fd, gbl_backtraceBuffer, gbl_backtraceEntries,
                   gbl_backtraceSymbols,
                   gbl_backtraceDoneFlag, heap, ThreadList, ThreadListMutex, sigDisp,
                   pending, pc, loc, bpc, report, retv, out>>

\* crash_handler: outputInit, the opening banner, and createGlobalBacktrace by the
\* crashing thread.
crash_open(t) ==
    /\ InCrash(t)
    /\ hpc[t] = "open"
    /\ gbl_fd' = IF gbl_params.filename # NULL THEN 5 ELSE gbl_fd
    /\ report' = [report EXCEPT ![t] = Append(@, Banner("banner_open", hloc[t].signo))]
    /\ gbl_backtraceEntries' = backtrace(t)
    /\ gbl_backtraceBuffer' = [gbl_backtraceBuffer EXCEPT !.owner = t, !.round = NoRound]
    /\ gbl_backtraceSymbols' \in backtrace_symbols(t, NoRound)
    /\ hpc' = [hpc EXCEPT ![t] = "own"]
    /\ UNCHANGED <<gbl_params, gbl_backtraceDoneFlag, heap, ThreadList, ThreadListMutex,
                   sigDisp, pending, pc, loc, hloc, bpc, proc, retv, hist, out>>

\* outputBacktrace: outputGlobalBacktrace, the "*" line, and the dumpAllThreads test;
\* outputBacktraceThreads starts with probe = ThreadList.
crash_own(t) ==
    /\ InCrash(t)
    /\ hpc[t] = "own"
    /\ report' = [report EXCEPT ![t] = Append(@, Line("own_frames", t,
                                                    gbl_backtraceBuffer.owner,
                                                    gbl_backtraceBuffer.round))]
    /\ IF gbl_params.dumpAllThreads
       THEN /\ hpc' = [hpc EXCEPT ![t] = IF ThreadList = 0 THEN "close" ELSE "loop"]
            /\ hloc' = [hloc EXCEPT ![t].probe = ThreadList]
       ELSE /\ hpc' = [hpc EXCEPT ![t] = "close"]
            /\ hloc' = hloc
    /\ UNCHANGED <<gbl_params, gbl_fd, gbl_backtraceBuffer, gbl_backtraceEntries,
                   gbl_backtraceSymbols,
                   gbl_backtraceDoneFlag, heap, ThreadList, ThreadListMutex, sigDisp,
                   pending, pc, loc, bpc, proc, retv, hist, out>>

\* The wait loop with the test i <= gbl_params.threadWaitTime.
StillWaitingOneMore(t) == hloc[t].i <= gbl_params.threadWaitTime /\ gbl_backtraceDoneFlag = 0

\* The wait loop goes on: i < gbl_params.threadWaitTime and the flag is still clear.
StillWaiting(t) == hloc[t].i < gbl_params.threadWaitTime /\ gbl_backtraceDoneFlag = 0

\* Reading *probe after the node was freed is undefined: the handler faults (SIGSEGV
\* is blocked inside its own handler, so the process is killed) or reads rubbish that
\* ends the walk.
crash_dangling(t) ==
    /\ InCrash(t)
    /\ hpc[t] \in {"loop", "wait"}
    /\ hpc[t] = "wait" => ~StillWaiting(t)
    /\ ~heap[hloc[t].probe].allocated
    /\ \/ /\ proc' = [state |-> "killed", code |-> SIGSEGV]
          /\ UNCHANGED <<hpc, hloc>>
       \/ /\ hpc' = [hpc EXCEPT ![t] = "close"]
          /\ hloc' = [hloc EXCEPT ![t].probe = 0]
          /\ proc' = proc
    /\ UNCHANGED <<gbl_params, gbl_fd, gbl_backtraceBuffer, gbl_backtraceEntries,
                   gbl_backtraceSymbols,
                   gbl_backtraceDoneFlag, heap, ThreadList, ThreadListMutex, sigDisp,
                   pending, pc, loc, bpc, report, retv, hist, out>>

\* gbl_backtraceDoneFlag = 0; pthread_kill(probe->thread, probe->backtraceSignal).
\* A signal sent to the calling thread itself is delivered before pthread_kill
\* returns; one sent to another thread stays pending until that thread takes it.
crash_kill(t) ==
    /\ InCrash(t)
    /\ hpc[t] = "loop"
    /\ hloc[t].probe # 0
    /\ heap[hloc[t].probe].allocated
    /\ LET node == heap[hloc[t].probe]
           u == node.thread
           g == node.backtraceSignal
           r == RoundId(t, hloc[t].round + 1)
       IN  /\ hist' = [hist EXCEPT !.round = @ + 1]
           /\ hloc' = [hloc EXCEPT ![t].i = 0, ![t].round = @ + 1]
           /\ gbl_backtraceDoneFlag' = 0
           /\ IF u # t
              THEN /\ pending' = [pending EXCEPT ![u][g] = r]
                   /\ UNCHANGED <<gbl_backtraceBuffer, gbl_backtraceEntries,
                                  gbl_backtraceSymbols,
                                  bpc, proc>>
              ELSE /\ pending' = pending
                   /\ IF sigDisp[g] = "bt_handler"
                      THEN /\ gbl_backtraceEntries' = backtrace(t)
                           /\ gbl_backtraceBuffer' =
                                 [gbl_backtraceBuffer EXCEPT !.owner = t, !.round = r]
                           /\ gbl_backtraceSymbols' \in backtrace_symbols(t, r)
                           /\ bpc' = [bpc EXCEPT ![t] = [at |-> "done"]]
                           /\ proc' = proc
                      ELSE /\ proc' = IF sigDisp[g] = "SIG_DFL"
                                      THEN [state |-> "killed", code |-> g]
                                      ELSE proc
                           /\ UNCHANGED <<gbl_backtraceBuffer, gbl_backtraceEntries,
                                          gbl_backtraceSymbols,
                                          bpc>>
    /\ hpc' = [hpc EXCEPT ![t] = "wait"]
    /\ UNCHANGED <<gbl_params, gbl_fd, heap, ThreadList, ThreadListMutex, sigDisp, pc,
                   loc, report, retv, out>>

\* One turn of the wait loop that finds the flag clear and budget left: sleep(1).
crash_wait(t) ==
    /\ InCrash(t)
    /\ hpc[t] = "wait"
    /\ StillWaiting(t)
    /\ hloc' = [hloc EXCEPT ![t].i = @ + 1, ![t].sleeps = @ + 1]
    /\ UNCHANGED <<gbl_params, gbl_fd, gbl_backtraceBuffer, gbl_backtraceEntries,
                   gbl_backtraceSymbols,
                   gbl_backtraceDoneFlag, heap, ThreadList, ThreadListMutex, sigDisp,
                   pending, pc, loc, hpc, bpc, proc, report, retv, hist, out>>

\* The section with the frames before the header, as the report would read if outputGlobalBacktrace
\* were called first.
SectionLinesFramesFirst(t, node) ==
    IF gbl_backtraceDoneFlag # 0
    THEN <<Line("frames", node.thread, gbl_backtraceBuffer.owner,
                gbl_backtraceBuffer.round),
           Line("header", node.thread, 0, RoundId(t, hloc[t].round)),
           Line("separator", 0, 0, RoundId(t, hloc[t].round))>>
    ELSE <<Line("error", node.thread, 0, RoundId(t, hloc[t].round)),
           Line("separator", 0, 0, RoundId(t, hloc[t].round))>>

\* The lines of one thread's section: the header and the frames of the shared buffer
\* when the flag is set, else the error line; then the separator.
SectionLines(t, node) ==
    IF gbl_backtraceDoneFlag # 0
    THEN <<Line("header", node.thread, 0, RoundId(t, hloc[t].round)),
           Line("frames", node.thread, gbl_backtraceBuffer.owner,
                gbl_backtraceBuffer.round),
           Line("separator", 0, 0, RoundId(t, hloc[t].round))>>
    ELSE <<Line("error", node.thread, 0, RoundId(t, hloc[t].round)),
           Line("separator", 0, 0, RoundId(t, hloc[t].round))>>

\* The entry outputBacktraceThreads goes to after the section of `node`.
NextProbe(node) == node.Next

\* The wait loop ends (flag set, or budget used up): the section of the entry at
\* probe, and probe = probe->Next.
crash_emit(t) ==
    /\ InCrash(t)
    /\ hpc[t] = "wait"
    /\ ~StillWaiting(t)
    /\ heap[hloc[t].probe].allocated
    /\ LET node == heap[hloc[t].probe]
       IN  /\ report' = [report EXCEPT ![t] = @ \o SectionLines(t, node)]
           /\ hloc' = [hloc EXCEPT ![t].probe = NextProbe(node)]
           /\ hpc' = [hpc EXCEPT ![t] = IF NextProbe(node) = 0 THEN "close" ELSE "loop"]
    /\ UNCHANGED <<gbl_params, gbl_fd, gbl_backtraceBuffer, gbl_backtraceEntries,
                   gbl_backtraceSymbols,
                   gbl_backtraceDoneFlag, heap, ThreadList, ThreadListMutex, sigDisp,
                   pending, pc, loc, bpc, proc, retv, hist, out>>

\* The closing banner, outputFini, which resets every output handle, and exit(signo).
crash_close(t) ==
    /\ InCrash(t)
    /\ hpc[t] = "close"
    /\ report' = [report EXCEPT ![t] = Append(@, Banner("banner_close", hloc[t].signo))]
    /\ gbl_fd' = -1
    /\ gbl_params' = [gbl_params EXCEPT !.fd = -1, !.filep = NULL]
    /\ proc' = [state |-> "exited", code |-> hloc[t].signo]
    /\ UNCHANGED <<gbl_backtraceBuffer, gbl_backtraceEntries, gbl_backtraceSymbols,
                   gbl_backtraceDoneFlag,
                   heap, ThreadList, ThreadListMutex, sigDisp, pending, pc, loc, hpc,
                   hloc, bpc, retv, hist, out>>

\* A pending rendezvous signal g is delivered to thread u, in whatever context u is:
\* bt_handler starts and captures (createGlobalBacktrace), the default action kills
\* the process, SIG_IGN and the application's own handler leave eCrash's state alone.
DeliverBacktraceSignal(u, g) ==
    /\ Running
    /\ bpc[u] = NoBt
    /\ pending[u][g] # NoRound
    /\ pending' = [pending EXCEPT ![u][g] = NoRound]
    /\ IF sigDisp[g] = "bt_handler"
       THEN /\ gbl_backtraceEntries' = backtrace(u)
            /\ gbl_backtraceBuffer' =
                  [gbl_backtraceBuffer EXCEPT !.owner = u, !.round = pending[u][g]]
            /\ gbl_backtraceSymbols' \in backtrace_symbols(u, pending[u][g])
            /\ bpc' = [bpc EXCEPT ![u] = [at |-> "done"]]
            /\ proc' = proc
       ELSE /\ proc' = IF sigDisp[g] = "SIG_DFL"
                       THEN [state |-> "killed", code |-> g]
                       ELSE proc
            /\ UNCHANGED <<gbl_backtraceBuffer, gbl_backtraceEntries, gbl_backtraceSymbols,
                           bpc>>
    /\ UNCHANGED <<gbl_params, gbl_fd, gbl_backtraceDoneFlag, heap, ThreadList,
                   ThreadListMutex, sigDisp, pc, loc, hpc, hloc, report, retv, hist, out>>

\* bt_handler: gbl_backtraceDoneFlag = 1, and return.
bt_done(u) ==
    /\ Running
    /\ bpc[u].at = "done"
    /\ gbl_backtraceDoneFlag' = 1
    /\ bpc' = [bpc EXCEPT ![u] = NoBt]
    /\ UNCHANGED <<gbl_params, gbl_fd, gbl_backtraceBuffer, gbl_backtraceEntries,
                   gbl_backtraceSymbols,
                   heap,
                   ThreadList, ThreadListMutex, sigDisp, pending, pc, loc, hpc, hloc,
                   proc, report, retv, hist, out>>

CrashStep(t) ==
    \/ \E s \in FatalSignals : FatalSignal(t, s)
    \/ crash_open(t)
    \/ crash_own(t)
    \/ crash_dangling(t)
    \/ crash_kill(t)
    \/ crash_wait(t)
    \/ crash_emit(t)
    \/ crash_close(t)
    \/ \E g \in BacktraceSignals : DeliverBacktraceSignal(t, g)
    \/ bt_done(t)

\* Some thread is inside a registry call.
CallInProgress == \E t \in Threads : pc[t] # "idle"

\* A registry call, once begun, runs to its return before any other thread moves
\* (SpecRegistry is the specification that interleaves the calls step by step).
Next ==
    \/ /\ hist.initCalls = 0
       /\ \E p \in MainParams : eCrash_Init(1, Ptr(p))
    \/ \E t \in Threads : (\A u \in Threads \ {t} : pc[u] = "idle") /\ RegistryStep(t)
    \/ \E t \in Threads : ~CallInProgress /\ CrashStep(t)

\* The whole library: initialisation, the registry calls of every thread, fatal
\* signals, the crash handler and the rendezvous handlers.
Spec == Init /\ [][Next]_vars

(***************************************************************************)
(* The output layer: outputInit, outputPrintf, blockingWrite, outputFini.  *)
(***************************************************************************)

\* The bytes of a line, and the texts a format can expand to (up to one byte more
\* than the line buffer takes); every format of eCrash.c expands to at least "*\n".
Bytes == {1, 2}
Texts == SeqsUpTo(Bytes, MAX_LINE_LEN - 1) \ {<< >>}

\* Configurations of the three output targets.
OutputParams ==
    {[ZeroParams EXCEPT !.signals = <<SIGSEGV>>]}
    \cup {[ZeroParams EXCEPT !.filename = Ptr("eCrash.out"), !.filep = fp, !.fd = fd,
                             !.signals = <<SIGSEGV>>] :
            fp \in {NULL, Ptr("stdout")}, fd \in {-1, 3}}

\* outputInit: open the configured file; gbl_fd is -1 when both opens fail.
outputInit ==
    /\ Running /\ Initialized
    /\ out.pc = "idle" /\ ~out.opened /\ out.lines = 0
    /\ gbl_fd' \in IF gbl_params.filename # NULL THEN {-1, 5} ELSE {gbl_fd}
    /\ out' = [out EXCEPT !.opened = TRUE]
    /\ UNCHANGED <<gbl_params, gbl_backtraceBuffer, gbl_backtraceEntries, gbl_backtraceSymbols,
                   gbl_backtraceDoneFlag, heap, ThreadList, ThreadListMutex, sigDisp,
                   pending, pc, loc, hpc, hloc, bpc, proc, report, retv, hist>>

\* outputPrintf up to the test of vsnprintf's result: text is what the format
\* expands to; the line is used only if it is shorter than MAX_LINE_LEN - 1.  The
\* call is made between outputInit and outputFini, or after outputFini.
outputPrintf_format(text) ==
    /\ Running /\ Initialized
    /\ out.pc = "idle" /\ (out.opened \/ out.closed) /\ out.lines < MaxLines
    /\ out' = [out EXCEPT !.outputLine = SubSeq(text, 1, Min({Len(text), MAX_LINE_LEN - 2})),
                          !.bytesInLine = Len(text),
                          !.overflow = ~(Len(text) < MAX_LINE_LEN - 1),
                          !.return_value = IF Len(text) < MAX_LINE_LEN - 1 THEN 0 ELSE -1,
                          !.pc = IF Len(text) < MAX_LINE_LEN - 1 THEN "file" ELSE "return",
                          !.bw = NoWrite, !.attempted = {}, !.short = {},
                          !.lines = @ + 1, !.ret = NULL, !.stray = out.closed]
    /\ UNCHANGED <<gbl_params, gbl_fd, gbl_backtraceBuffer, gbl_backtraceEntries,
                   gbl_backtraceSymbols,
                   gbl_backtraceDoneFlag, heap, ThreadList, ThreadListMutex, sigDisp,
                   pending, pc, loc, hpc, hloc, bpc, proc, report, retv, hist>>

\* The descriptor a blockingWrite call is made on, or -1 when the target is skipped.
DescriptorOf(target) ==
    IF target = "file"
    THEN IF gbl_params.filename # NULL THEN gbl_fd ELSE -1
    ELSE gbl_params.fd

\* The position after the given target.
AfterTarget(target) == IF target = "file" THEN "stream" ELSE "return"

\* The return_value outputPrintf sets when blockingWrite returns rc on the target.
FlagWrite(target, rc, return_value) ==
    IF rc # 0 THEN (IF target = "file" THEN -2 ELSE -4) ELSE return_value

\* The part of str that one write() call with result r appends: blockingWrite passes
\* &str[offset], and offset stays at 0.
WrittenPart(str, offset, r) == SubSeq(str, offset + 1, offset + r)

\* blockingWrite returns totalWritten and outputPrintf tests it.
blockingWrite_return(o, target, bw) ==
    [o EXCEPT !.bw = [bw EXCEPT !.done = TRUE],
              !.return_value = FlagWrite(target, bw.totalWritten, @),
              !.short = IF bw.totalWritten # o.bytesInLine THEN @ \cup {target} ELSE @,
              !.refused = @ \/ bw.totalWritten # o.bytesInLine,
              !.pc = AfterTarget(target)]

\* outputPrintf reaches a descriptor target: skip it, or enter blockingWrite, which
\* returns at once when the line is empty.
outputPrintf_descriptor(target) ==
    /\ Running
    /\ out.pc = target
    /\ IF DescriptorOf(target) = -1
       THEN out' = [out EXCEPT !.pc = AfterTarget(target)]
       ELSE LET bw == [NoWrite EXCEPT !.target = target, !.bytes = out.bytesInLine]
                o == [out EXCEPT !.attempted = @ \cup {target}]
            IN  IF bw.bytes > 0
                THEN out' = [o EXCEPT !.bw = bw, !.pc = "write"]
                ELSE out' = blockingWrite_return(o, target, bw)
    /\ UNCHANGED <<gbl_params, gbl_fd, gbl_backtraceBuffer, gbl_backtraceEntries,
                   gbl_backtraceSymbols,
                   gbl_backtraceDoneFlag, heap, ThreadList, ThreadListMutex, sigDisp,
                   pending, pc, loc, hpc, hloc, bpc, proc, report, retv, hist>>

\* One turn of blockingWrite's loop: write() accepts r bytes (1..bytes) or fails (-1).
blockingWrite_write(r) ==
    /\ Running
    /\ out.pc = "write"
    /\ r \in {-1} \cup 1..out.bw.bytes
    /\ LET target == out.bw.target
           part == IF r < 1 THEN << >> ELSE WrittenPart(out.outputLine, 0, r)
           bw == IF r < 1
                 THEN [out.bw EXCEPT !.bytesWritten = r]
                 ELSE [out.bw EXCEPT !.bytesWritten = r, !.totalWritten = @ + r,
                                     !.bytes = @ - r, !.received = @ \o part]
           o == IF target = "file"
                THEN [out EXCEPT !.file = @ \o part]
                ELSE [out EXCEPT !.desc = @ \o part]
       IN  IF r < 1 \/ bw.bytes = 0
           THEN out' = blockingWrite_return(o, target, bw)
           ELSE out' = [o EXCEPT !.bw = bw]
    /\ UNCHANGED <<gbl_params, gbl_fd, gbl_backtraceBuffer, gbl_backtraceEntries,
                   gbl_backtraceSymbols,
                   gbl_backtraceDoneFlag, heap, ThreadList, ThreadListMutex, sigDisp,
                   pending, pc, loc, hpc, hloc, bpc, proc, report, retv, hist>>

\* The result of fwrite(outputLine, bytesInLine, 1, filep): one item when the whole
\* line went out, none when it did not or when the item size is zero.
fwriteItems(bytesInLine, accepted) ==
    IF bytesInLine > 0 /\ accepted = bytesInLine THEN 1 ELSE 0

\* The stream target: fwrite takes the first k bytes of the line, and fflush.
outputPrintf_stream(k) ==
    /\ Running
    /\ out.pc = "stream"
    /\ IF gbl_params.filep = NULL
       THEN k = 0 /\ out' = [out EXCEPT !.pc = "desc"]
       ELSE /\ k \in 0..out.bytesInLine
            /\ out' = [out EXCEPT
                  !.stream = @ \o SubSeq(out.outputLine, 1, k),
                  !.attempted = @ \cup {"stream"},
                  !.short = IF k # out.bytesInLine THEN @ \cup {"stream"} ELSE @,
                  !.refused = @ \/ k # out.bytesInLine,
                  !.return_value = IF fwriteItems(out.bytesInLine, k) # 1 THEN -3 ELSE @,
                  !.pc = "desc"]
    /\ UNCHANGED <<gbl_params, gbl_fd, gbl_backtraceBuffer, gbl_backtraceEntries,
                   gbl_backtraceSymbols,
                   gbl_backtraceDoneFlag, heap, ThreadList, ThreadListMutex, sigDisp,
                   pending, pc, loc, hpc, hloc, bpc, proc, report, retv, hist>>

\* outputPrintf returns return_value.
outputPrintf_return ==
    /\ Running
    /\ out.pc = "return"
    /\ out' = [out EXCEPT !.pc = "idle", !.ret = Ptr(out.return_value)]
    /\ UNCHANGED <<gbl_params, gbl_fd, gbl_backtraceBuffer, gbl_backtraceEntries,
                   gbl_backtraceSymbols,
                   gbl_backtraceDoneFlag, heap, ThreadList, ThreadListMutex, sigDisp,
                   pending, pc, loc, hpc, hloc, bpc, proc, report, retv, hist>>

\* outputFini without the assignments that follow the close calls.
outputFiniNoReset ==
    /\ Running
    /\ out.pc = "idle" /\ out.opened /\ out.lines > 0
    /\ out' = [out EXCEPT !.opened = FALSE, !.closed = TRUE]
    /\ UNCHANGED <<gbl_params, gbl_fd, gbl_backtraceBuffer, gbl_backtraceEntries,
                   gbl_backtraceSymbols, gbl_backtraceDoneFlag,
                   heap, ThreadList, ThreadListMutex, sigDisp, pending, pc, loc, hpc,
                   hloc, bpc, proc, report, retv, hist>>

\* outputFini: close whatever is open and reset the three handles.
outputFini ==
    /\ Running
    /\ out.pc = "idle" /\ out.opened /\ out.lines > 0
    /\ gbl_fd' = -1
    /\ gbl_params' = [gbl_params EXCEPT !.fd = -1, !.filep = NULL]
    /\ out' = [out EXCEPT !.opened = FALSE, !.closed = TRUE]
    /\ UNCHANGED <<gbl_backtraceBuffer, gbl_backtraceEntries, gbl_backtraceSymbols,
                   gbl_backtraceDoneFlag,
                   heap, ThreadList, ThreadListMutex, sigDisp, pending, pc, loc, hpc,
                   hloc, bpc, proc, report, retv, hist>>

NextOutput ==
    \/ /\ hist.initCalls = 0
       /\ \E p \in OutputParams : eCrash_Init(1, Ptr(p))
    \/ outputInit
    \/ \E text \in Texts : outputPrintf_format(text)
    \/ \E target \in {"file", "desc"} : outputPrintf_descriptor(target)
    \/ \E r \in -1..MAX_LINE_LEN : blockingWrite_write(r)
    \/ \E k \in 0..MAX_LINE_LEN : outputPrintf_stream(k)
    \/ outputPrintf_return
    \/ outputFini

InitOnly ==
    /\ TypeInit
    /\ sigDisp = [s \in Signals |-> "SIG_DFL"]

\* eCrash_Init is called once, by the main thread, before any other call.
NextInit ==
    \/ /\ hist.initCalls = 0
       /\ \E p \in {NULL} \cup {Ptr(q) : q \in InitParams} : eCrash_Init(1, p)
    \/ \E a \in 0..MaxAddr : ResolveFrame(a)
    \/ eCrash_Uninit(1)

\* Initialisation, symbol resolution and eCrash_Uninit alone.
SpecInit == InitOnly /\ [][NextInit]_vars

\* The output layer alone, as crash_handler drives it: open, lines, close, and
\* outputPrintf calls made after the close.
SpecOutput == InitOnly /\ [][NextOutput]_vars

\* The lines of every length up to the buffer's, all of one byte value: what an
\* outputPrintf call does with its handles depends on the length of the line only.
PlainTexts == {[i \in 1..n |-> 1] : n \in 1..(MAX_LINE_LEN - 1)}

\* The output layer with plain lines.
NextClose ==
    \/ /\ hist.initCalls = 0
       /\ \E p \in OutputParams : eCrash_Init(1, Ptr(p))
    \/ outputInit
    \/ \E text \in PlainTexts : outputPrintf_format(text)
    \/ \E target \in {"file", "desc"} : outputPrintf_descriptor(target)
    \/ \E r \in -1..MAX_LINE_LEN : blockingWrite_write(r)
    \/ \E k \in 0..MAX_LINE_LEN : outputPrintf_stream(k)
    \/ outputPrintf_return
    \/ outputFini

\* The handles of the output layer from outputInit to outputFini and after it.
SpecClose == InitOnly /\ [][NextClose]_vars

\* The steps thread t takes inside a signal handler: crash_handler from its first
\* statement to exit, and bt_handler's return.
HandlerStep(t) ==
    \/ crash_open(t)
    \/ crash_own(t)
    \/ crash_dangling(t)
    \/ crash_kill(t)
    \/ crash_wait(t)
    \/ crash_emit(t)
    \/ crash_close(t)
    \/ bt_done(t)

\* The configurations of the single-crash specification: threadWaitTime 0, which
\* asks for the default, or 1 when all threads are dumped, 1 when they are not.
CrashParams ==
    LET every == {[p EXCEPT !.threadWaitTime = w] : p \in MainParams, w \in {0, 1}}
    IN  {p \in every : p.dumpAllThreads \/ p.threadWaitTime = 1}

\* Thread t may go on with a registry call, or begin one: no other thread is inside
\* a call, unless the crash handler interrupted it there (SpecRegistry is the
\* specification that interleaves the calls of several threads).
MayCall(t) ==
    /\ \A u \in Threads \ {t} : pc[u] = "idle" \/ hpc[u] # "none"
    /\ pc[t] = "idle" => hist.calls < CrashCalls

\* The threads register as ecrash_test.c does, with signo = 0 for the default signal.
DefaultSignalOnly(t) == pc'[t] = "add" => loc'[t].req = 0

\* One crash, at any point of the registry calls: the statements of a call are
\* interleaved with the handlers, and the fatal signal may interrupt a thread inside
\* a call, the mutex held or not.
NextCrash ==
    \/ /\ hist.initCalls = 0
       /\ \E p \in CrashParams : eCrash_Init(1, Ptr(p))
    \/ \E t \in Threads : MayCall(t) /\ RegistryStep(t) /\ DefaultSignalOnly(t)
    \/ \E t \in Threads : CrashStep(t) /\ hist'.crashes <= 1

\* The configurations of the capture specification: a caller's symbol table present
\* or absent, the backtrace_symbols fallback on or off.
CaptureParams ==
    {[p EXCEPT !.symbolTable = tb, !.useBacktraceSymbols = b] :
        p \in MainParams, tb \in {NULL, Ptr(TableOf(<<1, 3>>))}, b \in BOOLEAN}

\* One crash as in NextCrash, under the configurations of CaptureParams.
NextCapture ==
    \/ /\ hist.initCalls = 0
       /\ \E p \in CaptureParams : eCrash_Init(1, Ptr(p))
    \/ \E t \in Threads : MayCall(t) /\ RegistryStep(t) /\ DefaultSignalOnly(t)
    \/ \E t \in Threads : CrashStep(t) /\ hist'.crashes <= 1

\* The captures of one crash, by crash_handler and by bt_handler, in every
\* configuration of the symbol resolver.
SpecCapture == InitOnly /\ [][NextCapture]_vars

\* A thread that is inside a handler keeps being scheduled until the process ends.
SpecCrash ==
    /\ InitOnly
    /\ [][NextCrash]_vars
    /\ \A t \in Threads : WF_vars(HandlerStep(t))

(***************************************************************************)
(* Properties of initialisation and symbol resolution (SpecInit).          *)
(***************************************************************************)

\* The table eCrash_Init copied, and whether its addresses ascend.
ConfiguredSymbols == Deref(gbl_params.symbolTable).symbols
SortedAscending(symbols) ==
    \A i \in 1..Len(symbols) - 1 : symbols[i].address <= symbols[i + 1].address
HandlersInstalled ==
    \A s \in Range(gbl_params.signals) : sigDisp[s] = "crash_handler"

\* C8: eCrash_Init(NULL) returns a negative status without faulting, installs no
\* handler and leaves the configuration untouched; with a configuration it returns zero.
C8_InitNullIsOrdinaryError ==
    hist.initCalls = 1 =>
        IF hist.initArg = NULL
        THEN /\ ~hist.initFault
             /\ hist.initRet < 0
             /\ retv[1] = [op |-> "init", rc |-> hist.initRet]
             /\ \A s \in Signals : sigDisp[s] # "crash_handler"
             /\ gbl_params = ZeroParams
             /\ Running
        ELSE /\ ~hist.initFault
             /\ hist.initRet = 0

\* C9: on a table sorted ascending by address, lookupClosestSymbol returns an entry
\* with the greatest address not exceeding the query, the printed offset is
\* non-negative, below the gap to every larger entry address and equal to the
\* distance whenever %u can hold it; it returns no entry exactly when the table is
\* empty or the query is below the first entry's address.
C9_LookupClosest ==
    (hist.lookupAddr >= 0 /\ SortedAscending(ConfiguredSymbols)) =>
        LET a == hist.lookupAddr
            symbols == ConfiguredSymbols
            sym == hist.lookupSym
            text == hist.lookupText
        IN  /\ (sym = NULL) <=> (Len(symbols) = 0 \/ a < symbols[1].address)
            /\ sym = NULL => text.kind = "raw" /\ text.offset = a
            /\ sym # NULL =>
                /\ \E i \in 1..Len(symbols) : symbols[i] = Deref(sym)
                /\ Deref(sym).address <= a
                /\ \A i \in 1..Len(symbols) :
                       symbols[i].address <= a => symbols[i].address <= Deref(sym).address
                /\ text.kind = "symbol"
                /\ text.function = Deref(sym).function
                /\ text.offset >= 0
                /\ \A i \in 1..Len(symbols) :
                       symbols[i].address > Deref(sym).address =>
                           text.offset < symbols[i].address - Deref(sym).address
                /\ a - Deref(sym).address < UIntRange =>
                       text.offset = a - Deref(sym).address

\* C9's case: the table [(f,1),(g,3)] resolves address 2 to f+1.
C9_Witness ==
    /\ gbl_params.symbolTable = Ptr(TableOf(<<1, 3>>))
    /\ hist.lookupAddr = 2
    /\ hist.lookupText = [kind |-> "symbol", function |-> "f", offset |-> 1]

\* C10: ValidateSymbolTable returns -1 exactly when some entry's address is smaller
\* than the address of the entry before it, and eCrash_Init returns zero with the
\* crash handlers installed either way.
C10_ValidateDetectsUnsorted ==
    hist.validated =>
        /\ (hist.validateRc = -1) <=> ~SortedAscending(ConfiguredSymbols)
        /\ hist.initRet = 0
        /\ HandlersInstalled

(***************************************************************************)
(* Properties of the registry (SpecRegistry).                              *)
(***************************************************************************)

\* Thread t's removeThreadFromList leaves its scan / returns success in this step.
ScanStep(t) == pc[t] = "rm_scan" /\ pc'[t] # "rm_scan"
UnregisterReturnsOk(t) == pc[t] = "rm_done" /\ pc'[t] = "idle"

\* C6: when thread T's eCrash_UnregisterThread returns success, the disposition of
\* the signal S of the registration it removes is the disposition S had immediately
\* before that eCrash_RegisterThread(name, S) call changed it (S = 0 being the
\* configured default rendezvous signal).
C6_RegisterUnregisterRoundTrip ==
    [][\A t \in Threads :
          UnregisterReturnsOk(t) =>
              LET Removed == heap[loc[t].node]
              IN  /\ retv'[t] = [op |-> "unregister", rc |-> 0]
                  /\ sigDisp'[SignalOf(Removed.req)] = Removed.pre]_vars

\* C6's case: a thread has unregistered with success while the other thread is still
\* registered on the same signal, and the application's own handler is back.
C6_Witness ==
    /\ retv[1] = [op |-> "unregister", rc |-> 0]
    /\ pc[1] = "idle"
    /\ sigDisp[SIGUSR1] = "user_handler"
    /\ \E i \in 1..Len(Registry) :
           heap[Registry[i]].thread = 2 /\ heap[Registry[i]].backtraceSignal = SIGUSR1

\* The registry without its first entry of thread t.
RECURSIVE WithoutFirst(_, _)
WithoutFirst(ids, t) ==
    IF ids = << >> THEN << >>
    ELSE IF heap[Head(ids)].thread = t THEN Tail(ids)
    ELSE <<Head(ids)>> \o WithoutFirst(Tail(ids), t)

\* C7: eCrash_UnregisterThread succeeds exactly when the registry holds an entry of
\* the calling thread, and then removes one such entry (the first) and returns 0;
\* otherwise it returns -1 and leaves the registry, the nodes and every signal
\* disposition unchanged.  Hence after one registration the first unregister
\* succeeds and leaves no entry, and the second reports "not found".
C7_UnregisterFoundOrNot ==
    [][\A t \in Threads :
          /\ ScanStep(t) =>
                IF Registered(t)
                THEN /\ pc'[t] = "rm_done"
                     /\ heap[loc'[t].node].thread = t
                     /\ Registry' = WithoutFirst(Registry, t)
                ELSE /\ pc'[t] = "idle"
                     /\ retv'[t] = [op |-> "unregister", rc |-> -1]
                     /\ Registry' = Registry
                     /\ heap' = heap
                     /\ sigDisp' = sigDisp
          /\ UnregisterReturnsOk(t) =>
                /\ retv'[t] = [op |-> "unregister", rc |-> 0]
                /\ Registry' = Registry
                /\ ~heap'[loc[t].node].allocated]_vars

\* C7's case: a thread that had registered gets "not found" (its entry is gone after
\* its earlier successful unregister) while another thread's entry is still there.
C7_Witness ==
    /\ retv[1] = [op |-> "unregister", rc |-> -1]
    /\ 1 \in hist.everReg
    /\ ~Registered(1)
    /\ Registered(2)

(***************************************************************************)
(* Properties of the crash handler (specification Spec).                   *)
(***************************************************************************)

\* The crash_handler runs that have started.
CrashRuns == {t \in Threads : hpc[t] # "none"}

\* One fatal signal has been delivered, to a thread whose crash_handler ran, and no
\* registry call has run since: the plainest crash.
PlainCrash == hist.crashes = 1 /\ hist.quiet /\ hist.crasher \in CrashRuns

\* The threads named by the per-thread sections of a report, in report order.
NamedThreads(lines) ==
    LET sections == SelectSeq(lines, LAMBDA l : l.kind \in {"header", "error"})
    IN  [i \in 1..Len(sections) |-> sections[i].thread]

\* The threads registered when the crash began, other than the crashing thread,
\* most recently registered first.
OtherThreads == SelectSeq(hist.atCrash, LAMBDA u : u # hist.crasher)

\* C1: when a configured fatal signal is delivered to a thread, the crash handler
\* runs and the process terminates with exit status equal to that signal's number.
\* Stated for the plainest crash, and as far as a finite run shows it: once the
\* process has terminated, it has exited with the signal number as status.
C1_ExitStatusIsSignal ==
    (PlainCrash /\ ~Running) =>
        proc = [state |-> "exited", code |-> hloc[hist.crasher].signo]

\* C2: at most one crash-handling run is ever active: a second fatal signal does not
\* start a second run, and only one opening banner is emitted.
C2_AtMostOneCrashRun ==
    /\ Cardinality(CrashRuns) <= 1
    /\ Cardinality({t \in Threads : report[t] # << >>}) <= 1

\* C3: with dumpAllThreads on, the report of a crash that ran to its exit has one
\* per-thread section for each registered thread other than the crashing thread, in
\* reverse registration order, whether or not the crashing thread is registered;
\* with dumpAllThreads off it has the crashing thread's backtrace only and no
\* rendezvous signal was sent.
C3_SectionsAreTheOtherThreads ==
    (PlainCrash /\ proc.state = "exited") =>
        LET lines == report[hist.crasher]
        IN  /\ Len(SelectSeq(lines, LAMBDA l : l.kind = "own_frames")) = 1
            /\ IF gbl_params.dumpAllThreads
               THEN NamedThreads(lines) = OtherThreads
               ELSE NamedThreads(lines) = << >> /\ hist.round = 0

\* C4: whenever the coordinator emits frames under the header of registry entry T,
\* the capture buffer it reads was written by T's own rendezvous handler: a thread
\* that answers late does not get its stack printed under another thread's header.
\* Stated for runs with a single crash.
C4_FramesBelongToNamedThread ==
    hist.crashes = 1 =>
        \A t \in Threads : \A i \in 1..Len(report[t]) :
            report[t][i].kind = "frames" => report[t][i].owner = report[t][i].thread

\* C5: a thread that does not answer within threadWaitTime costs its own section
\* only: the error line is followed by the separator, every later entry is still
\* signalled and reported, and the report reaches the closing banner.  Stated for
\* the plainest crash, once the process has terminated.
C5_TimeoutIsLocal ==
    LET lines == report[hist.crasher]
    IN  (PlainCrash /\ ~Running /\ \E i \in 1..Len(lines) : lines[i].kind = "error") =>
            /\ \A i \in 1..Len(lines) :
                  lines[i].kind = "error" =>
                      i < Len(lines) /\ lines[i + 1].kind = "separator"
            /\ Len(NamedThreads(lines)) = Len(hist.atCrash)
            /\ lines[Len(lines)].kind = "banner_close"
            /\ proc.state = "exited"

\* C12: after eCrash_Init and then eCrash_Uninit the library is uninitialised again:
\* eCrash_Uninit has returned zero and crash_handler is no longer the action of any
\* configured fatal signal, so a fatal signal produces no crash report.
C12_UninitReleasesHandlers ==
    (Initialized /\ retv[1].op = "uninit") =>
        /\ retv[1].rc = 0
        /\ \A s \in Range(gbl_params.signals) : sigDisp[s] # "crash_handler"

\* Thread t's eCrash_RegisterThread returns from a failed addThreadToList in this step.
RegisterFails(t) == pc[t] = "add" /\ pc'[t] = "idle"

\* C13: when eCrash_RegisterThread fails because the entry cannot be allocated, it
\* returns a non-zero status, the registry is unchanged, and the disposition of the
\* requested rendezvous signal is what it was before the call.
C13_FailedRegistrationChangesNothing ==
    [][\A t \in Threads :
          RegisterFails(t) =>
              /\ retv'[t].op = "register" /\ retv'[t].rc # 0
              /\ ThreadList' = ThreadList /\ heap' = heap
              /\ sigDisp'[SignalOf(loc[t].req)] = loc[t].pre]_vars

(***************************************************************************)
(* Properties of the output layer (specification SpecOutput).              *)
(***************************************************************************)

\* The targets outputPrintf has to write a line to: those configured and open.
OpenTargets ==
    (IF gbl_params.filename # NULL /\ gbl_fd # -1 THEN {"file"} ELSE {})
    \cup (IF gbl_params.filep # NULL THEN {"stream"} ELSE {})
    \cup (IF gbl_params.fd # -1 THEN {"desc"} ELSE {})

\* outputPrintf has returned and the handles are still open.
Returned == out.pc = "idle" /\ out.opened /\ out.ret # NULL

\* C11: with the file, the stream and the descriptor all configured and all
\* accepting every line in full, the three targets have received the same bytes,
\* whatever partial writes the descriptors made.
C11_TargetsByteIdentical ==
    (Returned /\ OpenTargets = {"file", "stream", "desc"} /\ ~out.refused) =>
        out.file = out.stream /\ out.stream = out.desc

\* C14: when blockingWrite returns having written the n bytes of the line in total,
\* the descriptor has received exactly the line; and it returns with less only after
\* a write call that reported no progress.
C14_BlockingWriteDeliversLine ==
    out.bw.done =>
        /\ out.bw.totalWritten = out.bytesInLine => out.bw.received = out.outputLine
        /\ out.bw.totalWritten < out.bytesInLine => out.bw.bytesWritten < 1

\* C15: outputPrintf returns zero exactly when the line was formatted within the
\* bound and every configured, open target took the whole line; and a line formatted
\* within the bound is attempted on every such target, failures or not.
C15_EmitStatus ==
    Returned =>
        /\ Deref(out.ret) = 0 <=> (~out.overflow /\ out.short = {})
        /\ ~out.overflow => out.attempted = OpenTargets

\* An outputPrintf call issued after outputFini has returned.
StrayReturned == out.stray /\ out.pc = "idle" /\ out.ret # NULL

\* An outputPrintf call has returned between outputInit and outputFini, the
\* configured file not having been opened.
ReturnedFileNotOpen == Returned /\ gbl_params.filename # NULL /\ gbl_fd = -1

\* The handles are reset once outputFini has run, and the file target is skipped
\* without a failure when the file could not be opened.
HandlesResetAndFileSkipped ==
    /\ out.closed => gbl_fd = -1 /\ gbl_params.fd = -1 /\ gbl_params.filep = NULL
    /\ ReturnedFileNotOpen => "file" \notin out.attempted /\ Deref(out.ret) # -2

\* C24 as stated: after outputFini every handle is reset, so any later outputPrintf
\* call writes to no target and returns zero; and an outputPrintf issued when the
\* configured file could not be opened skips the file target without failing.
C24_EmitAfterCloseReturnsZero ==
    /\ HandlesResetAndFileSkipped
    /\ StrayReturned => out.attempted = {} /\ Deref(out.ret) = 0

\* C24, amended: a later outputPrintf call writes to no target and returns zero when
\* its line formats within the bound, -1 (the formatting error) when it does not;
\* the rest as stated.
C24_EmitAfterCloseWritesNothing ==
    /\ HandlesResetAndFileSkipped
    /\ StrayReturned =>
           /\ out.attempted = {}
           /\ Deref(out.ret) = IF out.overflow THEN -1 ELSE 0

\* A line that fits was issued after outputFini and returned zero, the descriptor
\* and the stream having taken bytes before the close.
C24_Witness ==
    /\ StrayReturned /\ ~out.overflow /\ out.ret = Ptr(0)
    /\ out.desc # << >> /\ out.stream # << >>

\* C17: the crash-time walk is safe against concurrent unregistration: while
\* outputBacktraceThreads is at an entry (about to signal it, or waiting on it and
\* still to read its name and its Next), that entry has not been freed.
C17_WalkNeverAtFreedEntry ==
    \A t \in Threads :
        (hpc[t] \in {"loop", "wait"} /\ hloc[t].probe # 0) =>
            heap[hloc[t].probe].allocated

\* C19: a capture never overruns the shared buffer: in every state the recorded
\* entry count is at most the capacity eCrash_Init allocated, for every accepted
\* configuration, maxStackDepth = 0 included.
C19_CaptureWithinCapacity == gbl_backtraceEntries <= gbl_backtraceBuffer.cap

(***************************************************************************)
(* Properties of one crash handler run (SpecCrash).                        *)
(***************************************************************************)

\* The lines of a report from the third on obey the section grammar: a header is
\* followed by its frames and a separator, an error line by a separator, and the
\* closing banner comes last.
SectionGrammar(lines) ==
    \A i \in 3..Len(lines) :
        /\ lines[i].kind \in {"header", "frames", "separator", "error", "banner_close"}
        /\ lines[i].kind = "header" =>
               i + 2 <= Len(lines) /\ lines[i + 1].kind = "frames"
                                   /\ lines[i + 2].kind = "separator"
        /\ lines[i].kind = "error" => i < Len(lines) /\ lines[i + 1].kind = "separator"
        /\ lines[i].kind = "frames" => lines[i - 1].kind = "header"
        /\ lines[i].kind = "separator" => lines[i - 1].kind \in {"frames", "error"}
        /\ lines[i].kind = "banner_close" => i = Len(lines)

\* s is an initial part of q.
IsPrefix(s, q) == Len(s) <= Len(q) /\ \A i \in 1..Len(s) : s[i] = q[i]

\* The report of thread t is what crash_handler has emitted up to where it stands.
ReportInOrder(t) ==
    LET lines == report[t]
        closed == Len(lines) > 0 /\ lines[Len(lines)].kind = "banner_close"
    IN  /\ lines = << >> <=> hpc[t] \in {"none", "open"}
        /\ lines # << >> => lines[1].kind = "banner_open"
        /\ Len(lines) = 1 <=> hpc[t] = "own"
        /\ Len(lines) >= 2 => lines[2].kind = "own_frames"
        /\ SectionGrammar(lines)
        /\ ~gbl_params.dumpAllThreads => NamedThreads(lines) = << >>
        /\ hist.quiet => IsPrefix(NamedThreads(lines), hist.atCrash)
        /\ (hist.quiet /\ closed /\ gbl_params.dumpAllThreads) =>
               NamedThreads(lines) = hist.atCrash
        /\ closed <=> (proc.state = "exited" /\ hpc[t] = "close")
        /\ (lines # << >> /\ ~closed) => gbl_fd # -1
        /\ closed => gbl_fd = -1

\* A step of bt_handler alone changes the capture buffer and the flag, nothing else
\* of the program; and no step in which a rendezvous handler moves emits a line.
RendezvousWritesBufferAndFlag ==
    \A u \in Threads :
        bpc'[u] # bpc[u] =>
            /\ report' = report
            /\ gbl_fd' = gbl_fd
            /\ hpc' = hpc =>
                   UNCHANGED <<gbl_params, heap, ThreadList, ThreadListMutex, sigDisp, pc,
                               loc, retv, out>>

HandlerMoves == hpc' # hpc \/ hloc' # hloc \/ bpc' # bpc \/ report' # report

\* The head pointer or the Next field of some node changes.
ListChanges == ThreadList' # ThreadList \/ \E n \in 1..MaxNodes : heap'[n].Next # heap[n].Next

\* The thread that holds the mutex takes the step, inside addThreadToList or
\* removeThreadFromList.
HolderMoves ==
    /\ ThreadListMutex \in Threads
    /\ pc[ThreadListMutex] \in {"add_link", "rm_scan"}
    /\ pc'[ThreadListMutex] # pc[ThreadListMutex]

\* Thread t was interrupted by the fatal signal inside a registry call, holding the
\* mutex.
CrashedHoldingMutex(t) == hpc[t] # "none" /\ ThreadListMutex = t

\* C18: no step of crash_handler or bt_handler acquires (or releases) the registry
\* mutex; a crash handler that interrupted the holder of the mutex still runs until
\* the process terminates; and the list structure changes only in steps of the
\* thread that holds the mutex.
C18_CrashPathNeverWaitsForMutex ==
    /\ [][HandlerMoves => ThreadListMutex' = ThreadListMutex]_vars
    /\ [][ListChanges => HolderMoves]_vars
    /\ (\E t \in Threads : CrashedHoldingMutex(t)) ~> ~Running

\* The crash handler interrupted the holder of the mutex, walked a non-empty registry
\* and exited.
C18_Witness ==
    /\ proc.state = "exited"
    /\ CrashedHoldingMutex(hist.crasher)
    /\ NamedThreads(report[hist.crasher]) # << >>

\* C20: for each entry the coordinator clears the flag and sends the entry's signal
\* to the entry's thread in one go, then sleeps only while the flag is clear and at
\* most threadWaitTime times; so the sleeps of a run are at most threadWaitTime per
\* entry visited, the entries visited are at most those registered when no call ran
\* since the crash, and the all-threads phase always comes to its end.
C20_BoundedWait ==
    /\ [](\A t \in Threads :
            /\ hloc[t].i <= gbl_params.threadWaitTime
            /\ hloc[t].sleeps <= hloc[t].round * gbl_params.threadWaitTime
            /\ hist.quiet => hloc[t].round <= Len(hist.atCrash))
    /\ [][\A t \in Threads :
            /\ hloc'[t].sleeps # hloc[t].sleeps =>
                   /\ gbl_backtraceDoneFlag = 0
                   /\ hloc'[t].sleeps = hloc[t].sleeps + 1 /\ hloc'[t].i = hloc[t].i + 1
            /\ hloc'[t].round # hloc[t].round =>
                   LET node == heap[hloc[t].probe]
                   IN  /\ gbl_backtraceDoneFlag' = 0 /\ hloc'[t].i = 0
                       /\ \/ /\ node.thread # t
                             /\ pending'[node.thread][node.backtraceSignal] =
                                    RoundId(t, hloc'[t].round)
                          \/ /\ node.thread = t
                             /\ \/ bpc'[t].at = "done"
                                \/ sigDisp[node.backtraceSignal] # "bt_handler"]_vars
    /\ (\E t \in Threads : hpc[t] \in {"loop", "wait"})
           ~> (\E t \in Threads : hpc[t] = "close") \/ ~Running

\* A walk over two entries in which every wait ran out its budget of two sleeps.
C20_Witness ==
    \E t \in Threads :
        /\ hpc[t] = "close" /\ gbl_params.threadWaitTime >= 2
        /\ hloc[t].round >= 2
        /\ hloc[t].sleeps = hloc[t].round * gbl_params.threadWaitTime

(***************************************************************************)
(* Properties of the registry and the rendezvous signals (SpecRegistry).   *)
(***************************************************************************)

\* C21: while a thread is registered its rendezvous signal stays armed: whenever the
\* registry holds an entry with signal S, the disposition of S is bt_handler, under
\* every interleaving of register and unregister calls, threads sharing a signal
\* included.
C21_RegisteredSignalStaysArmed ==
    \A i \in 1..Len(Registry) :
        sigDisp[heap[Registry[i]].backtraceSignal] = "bt_handler"

\* C25: the registry holds at most one entry per thread identifier in every state,
\* a thread that registers twice without unregistering included.
C25_OneEntryPerThread ==
    \A i, j \in 1..Len(Registry) :
        heap[Registry[i]].thread = heap[Registry[j]].thread => i = j

\* C22: once the registry is empty again after successful registrations and
\* unregistrations only, every signal that was used as a rendezvous signal has the
\* disposition it had before the first registration that used it.
C22_EmptyRegistryRestoresSignals ==
    (hist.allOk /\ Registry = << >> /\ \A t \in Threads : pc[t] = "idle") =>
        \A s \in BacktraceSignals :
            hist.origDisp[s] # "unused" => sigDisp[s] = hist.origDisp[s]

(***************************************************************************)
(* Properties of the capture (SpecCapture).                                *)
(***************************************************************************)

\* A step in which createGlobalBacktrace runs: the shared buffer gets a new owner or
\* a new round (eCrash_Init, which sets the capacity, is not one).
CaptureStep ==
    /\ gbl_backtraceBuffer' # gbl_backtraceBuffer
    /\ gbl_backtraceBuffer'.cap = gbl_backtraceBuffer.cap

\* C23: the capture allocates nothing and takes no lock, whether a symbol table is
\* configured or not and whether useBacktraceSymbols is set or not: a step in which
\* crash_handler or bt_handler captures a stack leaves the allocated memory (the
\* registry nodes and the array of symbol strings) and the mutex as they were.
C23_CaptureAllocatesNothing ==
    [][CaptureStep =>
          /\ gbl_backtraceSymbols' = gbl_backtraceSymbols
          /\ \A n \in 1..MaxNodes : heap'[n].allocated = heap[n].allocated
          /\ ThreadListMutex' = ThreadListMutex]_vars

====
